---- MODULE Spec2Model ----
(***************************************************************************)
(* Race Safety Health (RaceSafetyMVP.jsx, v4.1): the record store of the   *)
(* RaceSafetyMVP component, its event handlers, its two effects, the       *)
(* role/segment/domain filters, the scoring engine and the gauge.          *)
(*                                                                         *)
(* Numbers.  S, O, D and ucaCount are integers.  controlsActive and        *)
(* readiness are written by sliders as e.target.value / 100 and are kept   *)
(* here as that integer number of hundredths; weight is kept in tenths;    *)
(* criterion scores are kept in hundredths.  Scores are exact rationals    *)
(* [n, d]; IEEE-754 rounding of the JavaScript doubles is not modelled.    *)
(* Strings that carry no decision (hazard name, constraint statement,      *)
(* labels) are left out of the records.  The en dash of                    *)
(* "Security - Threats" is written as a hyphen.                            *)
(***************************************************************************)
EXTENDS Integers, Sequences, FiniteSets, TLC

\* ------------------------------------------------------------------ bounds
\* User operations other than "log incident" in one behaviour of Spec.
MaxOps == 3
\* "Log incident" clicks in one behaviour of Spec.
MaxLogs == 1
\* The same two budgets for SpecLog, which fills the incident log.
MaxLogSetup == 2
MaxLogDepth == 21

\* --------------------------------------------------------------- utilities
Null == "null"

Min2(a, b) == IF a <= b THEN a ELSE b
Max2(a, b) == IF a >= b THEN a ELSE b

\* clamp = (v, min, max) => Math.min(max, Math.max(min, v)), on integers
clamp(v, lo, hi) == Min2(hi, Max2(lo, v))

Range(s) == {s[i] : i \in 1..Len(s)}

RECURSIVE GCD(_, _)
GCD(a, b) == IF b = 0 THEN a ELSE GCD(b, a % b)

Abs(x) == IF x < 0 THEN -x ELSE x

\* The rational n/d in lowest terms, d > 0.
Rat(n, d) ==
  LET g == GCD(Abs(n), d)
  IN  IF n = 0 THEN [n |-> 0, d |-> 1] ELSE [n |-> n \div g, d |-> d \div g]

RInt(i) == [n |-> i, d |-> 1]
RAdd(x, y) ==
  LET l == (x.d \div GCD(x.d, y.d)) * y.d
  IN  Rat(x.n * (l \div x.d) + y.n * (l \div y.d), l)
RSub(x, y) == RAdd(x, [n |-> -y.n, d |-> y.d])
RMul(x, y) ==
  LET a == Rat(x.n, y.d)
      b == Rat(y.n, x.d)
  IN  Rat(a.n * b.n, a.d * b.d)
RDivInt(x, k) == RMul(x, Rat(1, k))
RLess(x, y) == RSub(x, y).n < 0
RLeq(x, y) == RSub(x, y).n <= 0

\* clamp on a rational, with integer limits
RClamp(x, lo, hi) ==
  IF RLess(x, RInt(lo)) THEN RInt(lo)
  ELSE IF RLess(RInt(hi), x) THEN RInt(hi) ELSE x

\* Math.round: the nearest integer, a tie going up
RRound(x) == (2 * x.n + x.d) \div (2 * x.d)

RECURSIVE RSumSeq(_)
\* sum = (arr) => arr.reduce((a, b) => a + b, 0)
RSumSeq(s) == IF s = <<>> THEN RInt(0) ELSE RAdd(Head(s), RSumSeq(Tail(s)))

\* avg = (arr) => (arr.length ? sum(arr) / arr.length : 0)
avg(s) == IF Len(s) # 0 THEN RDivInt(RSumSeq(s), Len(s)) ELSE RInt(0)

\* pct = (x) => Math.round(clamp(x * 100, 0, 100))
pct(x) == RRound(RClamp(RMul(x, RInt(100)), 0, 100))

\* ------------------------------------------------------------------ catalogs
LANGS == <<"en", "el">>

DOMAINS ==
  << "Financial", "Organizational", "Health / Sanitary", "Legal", "Operational",
     "Sports", "Public Relations / Publicity", "Human Resources", "Environmental",
     "Security - Threats" >>

ROLES ==
  << "Race Director", "Operations Lead", "Medical Lead", "Security Lead",
     "PR / Media Lead", "Finance Lead", "HR / Volunteers Lead",
     "Environmental Lead", "Legal / Compliance Lead", "Sports / Course Lead" >>

INCIDENT_TYPES ==
  << "Heat illness", "Runner collision", "Course confusion", "Traffic incursion",
     "Security concern", "Lightning / storm", "Trail fall" >>

\* The ids of the criteria of each domain.
READINESS_CRITERIA ==
  [d \in Range(DOMAINS) |->
     CASE d = "Financial" -> <<"budget", "sponsors", "cashflow">>
       [] d = "Organizational" -> <<"plan", "comms", "briefings">>
       [] d = "Health / Sanitary" -> <<"medicalPlan", "aed", "hydration">>
       [] d = "Legal" -> <<"permits", "insurance", "waivers">>
       [] d = "Operational" -> <<"traffic", "vendors", "logistics", "signage">>
       [] d = "Sports" -> <<"courseCert", "timing", "stations">>
       [] d = "Public Relations / Publicity" -> <<"mediaPlan", "crisis", "athleteInfo">>
       [] d = "Human Resources" -> <<"staffing", "volunteers", "training">>
       [] d = "Environmental" -> <<"waste", "trailProtect", "weather">>
       [] d = "Security - Threats" -> <<"riskAssess", "perimeter", "response">>]

ROLE_DOMAINS ==
  [r \in Range(ROLES) |->
     CASE r = "Race Director" -> DOMAINS
       [] r = "Operations Lead" -> <<"Organizational", "Operational", "Sports">>
       [] r = "Medical Lead" -> <<"Health / Sanitary", "Sports">>
       [] r = "Security Lead" -> <<"Security - Threats", "Operational">>
       [] r = "PR / Media Lead" -> <<"Public Relations / Publicity">>
       [] r = "Finance Lead" -> <<"Financial">>
       [] r = "HR / Volunteers Lead" -> <<"Human Resources", "Organizational">>
       [] r = "Environmental Lead" -> <<"Environmental">>
       [] r = "Legal / Compliance Lead" -> <<"Legal">>
       [] r = "Sports / Course Lead" -> <<"Sports", "Operational", "Environmental">>]

\* The role whose ROLE_CONTROLS entry is null (every control is visible).
AllControlsRoles == {"Race Director"}

\* The allow-list of each role whose ROLE_CONTROLS entry is an array.
ROLE_CONTROLS ==
  [r \in Range(ROLES) \ AllControlsRoles |->
     CASE r = "Operations Lead" -> <<"Traffic / Course Separation", "Crowd Flow at Start/Finish">>
       [] r = "Medical Lead" -> <<"Heat / Cold Protocol", "Medical Response & AED coverage">>
       [] r = "Security Lead" -> <<"Security Screening Perimeter", "Traffic / Course Separation">>
       [] r = "PR / Media Lead" -> <<>>
       [] r = "Finance Lead" -> <<>>
       [] r = "HR / Volunteers Lead" -> <<>>
       [] r = "Environmental Lead" -> <<"Heat / Cold Protocol">>
       [] r = "Legal / Compliance Lead" -> <<>>
       [] r = "Sports / Course Lead" -> <<"Trail Sweep / Search & Rescue", "Crowd Flow at Start/Finish">>]

Hz(id, domain, S, O, D, ca, w, seg) ==
  [id |-> id, domain |-> domain, S |-> S, O |-> O, D |-> D,
   controlsActive |-> ca, weight |-> w, segmentId |-> seg]

Cn(id) == [id |-> id, critical |-> TRUE, status |-> "pass"]

TEMPLATE_KEYS == <<"roadShort", "roadMarathon", "trailUltra">>

TEMPLATES ==
  [k \in Range(TEMPLATE_KEYS) |->
     CASE k = "roadShort" ->
            [hazards |->
               << Hz("H1", "Health / Sanitary", 8, 4, 4, 80, 13, "SEG-START"),
                  Hz("H2", "Operational", 5, 4, 5, 70, 10, "SEG-2"),
                  Hz("H3", "Security - Threats", 9, 2, 6, 70, 14, "SEG-ALL"),
                  Hz("H4", "Sports", 6, 5, 3, 90, 10, "SEG-START"),
                  Hz("H5", "Environmental", 6, 3, 5, 70, 10, "SEG-3"),
                  Hz("H6", "Human Resources", 5, 4, 4, 60, 9, "SEG-START") >>,
             constraints |-> << Cn("S1"), Cn("S2"), Cn("S3") >>,
             segments |-> << "SEG-START", "SEG-1", "SEG-2", "SEG-3", "SEG-ALL" >>]
       [] k = "roadMarathon" ->
            [hazards |->
               << Hz("H1", "Health / Sanitary", 9, 5, 4, 75, 15, "SEG-ALL"),
                  Hz("H2", "Sports", 10, 2, 7, 70, 16, "SEG-ALL"),
                  Hz("H3", "Operational", 8, 3, 6, 70, 13, "SEG-10"),
                  Hz("H4", "Operational", 6, 4, 6, 70, 11, "SEG-5"),
                  Hz("H5", "Security - Threats", 10, 2, 6, 65, 15, "SEG-ALL"),
                  Hz("H6", "Environmental", 10, 2, 7, 70, 13, "SEG-ALL"),
                  Hz("H7", "Human Resources", 6, 5, 4, 60, 10, "SEG-START") >>,
             constraints |-> << Cn("S1"), Cn("S2"), Cn("S3"), Cn("S4"), Cn("S5") >>,
             segments |-> << "SEG-START", "SEG-5", "SEG-10", "SEG-20", "SEG-ALL" >>]
       [] k = "trailUltra" ->
            [hazards |->
               << Hz("H1", "Sports", 8, 5, 6, 60, 14, "SEG-TECH"),
                  Hz("H2", "Environmental", 9, 4, 7, 60, 15, "SEG-RIDGE"),
                  Hz("H3", "Operational", 9, 3, 7, 65, 14, "SEG-ALL"),
                  Hz("H4", "Health / Sanitary", 9, 4, 6, 60, 15, "SEG-ALL"),
                  Hz("H5", "Security - Threats", 9, 3, 8, 55, 16, "SEG-REMOTE"),
                  Hz("H6", "Human Resources", 7, 4, 5, 60, 12, "SEG-AID") >>,
             constraints |-> << Cn("S1"), Cn("S2"), Cn("S3"), Cn("S4") >>,
             segments |->
               << "SEG-START", "SEG-TECH", "SEG-RIDGE", "SEG-REMOTE", "SEG-AID", "SEG-ALL" >>]]

Ct(id, name, readiness, ucaCount) ==
  [id |-> id, name |-> name, readiness |-> readiness, ucaCount |-> ucaCount]

INITIAL_CONTROLS ==
  << Ct("C1", "Heat / Cold Protocol", 70, 1),
     Ct("C2", "Traffic / Course Separation", 80, 0),
     Ct("C3", "Medical Response & AED coverage", 75, 1),
     Ct("C4", "Crowd Flow at Start/Finish", 85, 0),
     Ct("C5", "Security Screening Perimeter", 60, 2),
     Ct("C6", "Trail Sweep / Search & Rescue", 65, 1) >>

\* [...].slice(0, 20) in logIncident
IncidentCap == 20


\* ------------------------------------------------------------------- state
VARIABLES
  lang,              \* useState(saved?.lang || "en")
  templateKey,       \* useState(saved?.templateKey || "roadShort")
  role,              \* useState(saved?.role || "Race Director")
  selectedSegment,   \* a segment id or Null
  selectedDomain,    \* a domain or Null
  hazards,           \* sequence of hazard records
  controls,          \* sequence of control records
  constraints,       \* sequence of constraint records
  criteriaValues,    \* function from <<domain, criterionId>> to hundredths
  incidents,         \* sequence of [type, hazardId, ts], newest first
  incidentType,      \* the incident form's type select
  incidentHazardId,  \* the incident form's hazard select
  stored,            \* localStorage[LS_KEY]: <<>> or <<text>>
  storageWorks,      \* localStorage.setItem does not throw (quota, privacy mode)
  phase,             \* "effects": rendered, effects not yet run; "idle";
                     \* "crashed": a render threw and React unmounted the tree
  pendingReset,      \* the template effect's dependency changed (or mount)
  clock,             \* Date.now(), one tick per logged incident
  opsLeft,           \* budget of user operations
  logsLeft           \* budget of "log incident" clicks

vars ==
  << lang, templateKey, role, selectedSegment, selectedDomain, hazards, controls,
     constraints, criteriaValues, incidents, incidentType, incidentHazardId,
     stored, storageWorks, phase, pendingReset, clock, opsLeft, logsLeft >>

\* The record store: what the persist effect depends on.
docVars ==
  << lang, templateKey, role, selectedSegment, selectedDomain, hazards, controls,
     constraints, criteriaValues, incidents >>

formVars == << incidentType, incidentHazardId >>


\* const template = TEMPLATES[templateKey]
template == TEMPLATES[templateKey]

\* template.segments: the segments are derived from the template key
segments == template.segments

\* ------------------------------------------------------- Filter/View layer
\* const visibleDomains = ROLE_DOMAINS[role] || DOMAINS
visibleDomainsOf(r) == IF r \in DOMAIN ROLE_DOMAINS THEN ROLE_DOMAINS[r] ELSE DOMAINS
visibleDomains == visibleDomainsOf(role)

\* Mutant: an empty allow-list is taken for "no restriction".
filteredControlsOf_EmptyMeansAll(cs, r) ==
  IF r \notin DOMAIN ROLE_CONTROLS \/ ROLE_CONTROLS[r] = << >>
    THEN cs
    ELSE LET keep(c) == c.name \in Range(ROLE_CONTROLS[r])
         IN  SelectSeq(cs, keep)

\* visibleControls == null ? controls
\*   : controls.filter((c) => visibleControls.includes(c.name))
filteredControlsOf(cs, r) ==
  IF r \notin DOMAIN ROLE_CONTROLS
    THEN cs
    ELSE LET keep(c) == c.name \in Range(ROLE_CONTROLS[r])
         IN  SelectSeq(cs, keep)
filteredControls == filteredControlsOf(controls, role)

\* hazards.filter: segment, then domain, then the role's domains
filteredHazardsOf(hs, r, seg, dom) ==
  LET keep(h) ==
        /\ ~(seg # Null /\ h.segmentId # seg)
        /\ ~(dom # Null /\ h.domain # dom)
        /\ h.domain \in Range(visibleDomainsOf(r))
  IN  SelectSeq(hs, keep)
filteredHazards == filteredHazardsOf(hazards, role, selectedSegment, selectedDomain)

\* ---------------------------------------------------------- Scoring engine
\* Mutant: the weight of the hazard is left out.
residualRpn_NoWeight(h) ==
  Rat(h.S * h.O * h.D * (100 - clamp(h.controlsActive, 0, 100)), 100)

\* Mutant: the share of active controls is not inverted.
residualRpn_ControlsNotInverted(h) ==
  Rat(h.S * h.O * h.D * clamp(h.controlsActive, 0, 100) * h.weight, 1000)

\* base * (1 - clamp(h.controlsActive, 0, 1)) * (h.weight ?? 1)
residualRpn(h) ==
  Rat(h.S * h.O * h.D * (100 - clamp(h.controlsActive, 0, 100)) * h.weight, 1000)

domainRiskScore(hs, domain) ==
  LET inDomain(h) == h.domain = domain
      sel == SelectSeq(hs, inDomain)
  IN  IF Len(sel) = 0 THEN RInt(0)
      ELSE avg([i \in 1..Len(sel) |-> residualRpn(sel[i])])

\* clamp(risk / 10, 0, 100)
normalizeRiskToPct(risk) == RClamp(RDivInt(risk, 10), 0, 100)

\* Mutant: neither the adjusted readiness nor the percentage is clamped.
controlHealthPct_NoClamp(cs) ==
  IF Len(cs) = 0 THEN 100
  ELSE RRound(RMul(avg([i \in 1..Len(cs) |->
                          Rat(cs[i].readiness - cs[i].ucaCount * 6, 100)]),
                   RInt(100)))

\* Mutant: a UCA costs 0.1 of readiness.
controlHealthPct_PenaltyTenth(cs) ==
  IF Len(cs) = 0 THEN 100
  ELSE pct(avg([i \in 1..Len(cs) |->
                  Rat(clamp(cs[i].readiness - cs[i].ucaCount * 10, 0, 100), 100)]))

\* clamp(c.readiness - c.ucaCount * 0.06, 0, 1), then pct(avg(...))
controlHealthPct(cs) ==
  IF Len(cs) = 0 THEN 100
  ELSE pct(avg([i \in 1..Len(cs) |->
                  Rat(clamp(cs[i].readiness - cs[i].ucaCount * 6, 0, 100), 100)]))

\* Mutant: a criterion without a score counts as 0.
criterionValue_DefaultZero(cv, d, c) ==
  IF <<d, c>> \in DOMAIN cv THEN Rat(cv[<<d, c>>], 100) ELSE RInt(0)

\* typeof v === "number" ? v : 0.75
criterionValue(cv, d, c) == IF <<d, c>> \in DOMAIN cv THEN Rat(cv[<<d, c>>], 100) ELSE Rat(75, 100)

\* readiness per domain, in the order of DOMAINS
readinessFromCriteria(criteriaMap, cv) ==
  [i \in 1..Len(DOMAINS) |->
     LET d == DOMAINS[i]
         crits == criteriaMap[d]
     IN  IF Len(crits) = 0 THEN Rat(75, 100)
         ELSE avg([j \in 1..Len(crits) |-> criterionValue(cv, d, crits[j])])]

readiness == readinessFromCriteria(READINESS_CRITERIA, criteriaValues)

\* normalizeRiskToPct(domainRiskScore(hazards, d)) for each d of DOMAINS
riskByDomainOf(hs) ==
  [i \in 1..Len(DOMAINS) |-> normalizeRiskToPct(domainRiskScore(hs, DOMAINS[i]))]

\* Mutant: the mean is taken over the domains that have a hazard.
riskLoadPctOf_PopulatedDomains(hs) ==
  LET populated(i) == \E j \in 1..Len(hs) : hs[j].domain = DOMAINS[i]
      idx == SelectSeq([i \in 1..Len(DOMAINS) |-> i], populated)
  IN  RClamp(avg([k \in 1..Len(idx) |-> riskByDomainOf(hs)[idx[k]]]), 0, 100)

\* clamp(avg(Object.values(riskByDomain)), 0, 100)
riskLoadPctOf(hs) == RClamp(avg(riskByDomainOf(hs)), 0, 100)

\* Mutant: the risk is aggregated over the hazards the view shows.
riskLoadPct_OfFilteredHazards == riskLoadPctOf(filteredHazards)

\* domainRiskScore(hazards, d): the full hazard collection
riskLoadPct == riskLoadPctOf(hazards)
controlPct == controlHealthPct(filteredControls)
readinessPct == pct(avg(readiness))

\* Mutant: a failing constraint closes the gate whether critical or not.
anyCriticalFailOf_AnyFail(cs) == \E i \in 1..Len(cs) : cs[i].status = "fail"

\* constraints.some((c) => c.critical && c.status === "fail")
anyCriticalFailOf(cs) == \E i \in 1..Len(cs) : cs[i].critical /\ cs[i].status = "fail"
anyCriticalFail == anyCriticalFailOf(constraints)

\* Mutant: the risk load is blended without being inverted.
holisticPctOf_RiskNotInverted(rp, cp, rl) ==
  RClamp(RAdd(RAdd(RMul(RInt(rp), Rat(4, 10)), RMul(RInt(cp), Rat(3, 10))),
              RMul(rl, Rat(3, 10))),
         0, 100)

\* readiness 40%, controls 30%, risk inverted 30%
holisticPctOf(rp, cp, rl) ==
  RClamp(RAdd(RAdd(RMul(RInt(rp), Rat(4, 10)), RMul(RInt(cp), Rat(3, 10))),
              RMul(RSub(RInt(100), rl), Rat(3, 10))),
         0, 100)
holisticPct == holisticPctOf(readinessPct, controlPct, riskLoadPct)

\* ------------------------------------------------------------------ gauge
\* What SafetyGauge renders for (value, lockedRed).
gaugeV(value) == RClamp(value, 0, 100)
\* const displayValue = lockedRed ? 0 : v  (the needle)
gaugeDisplayValue(value, lockedRed) == IF lockedRed THEN RInt(0) ELSE gaugeV(value)
\* {Math.round(v)}%  (the number under the arc)
gaugeValueText(value, lockedRed) == RRound(gaugeV(value))
\* Mutant: the bands of the v4 gauge, 60 and 80.
gaugeStatusKey_BandsOfV4(value, lockedRed) ==
  IF lockedRed \/ RLess(gaugeV(value), RInt(60)) THEN "notHealthy"
  ELSE IF RLess(gaugeV(value), RInt(80)) THEN "watch" ELSE "healthy"

\* lockedRed || v < 50 ? "notHealthy" : v < 75 ? "watch" : "healthy"
gaugeStatusKey(value, lockedRed) ==
  IF lockedRed \/ RLess(gaugeV(value), RInt(50)) THEN "notHealthy"
  ELSE IF RLess(gaugeV(value), RInt(75)) THEN "watch" ELSE "healthy"
\* {lockedRed ? t("constraintFail") : status}
gaugeStatusText(value, lockedRed) ==
  IF lockedRed THEN "constraintFail" ELSE gaugeStatusKey(value, lockedRed)

\* <SafetyGauge value={holisticPct} lockedRed={anyCriticalFail} />
shownNeedle == gaugeDisplayValue(holisticPct, anyCriticalFail)
shownValue == gaugeValueText(holisticPct, anyCriticalFail)
shownStatus == gaugeStatusText(holisticPct, anyCriticalFail)


\* ------------------------------------------------------------ persistence
\* The object the persist effect hands to saveLS.
Doc ==
  [lang |-> lang, templateKey |-> templateKey, role |-> role,
   selectedSegment |-> selectedSegment, selectedDomain |-> selectedDomain,
   hazards |-> hazards, controls |-> controls, constraints |-> constraints,
   criteriaValues |-> criteriaValues, incidents |-> incidents]

\* The keys of a document whose values are strings or null.
StringFields == {"lang", "templateKey", "role", "selectedSegment", "selectedDomain"}

\* The value undefined of a key.
Undefined == "undefined"

\* The keys of the object the persist effect builds, in the order it lists
\* them, which is the order JSON.stringify writes them in.
KeyOrder ==
  << "lang", "templateKey", "role", "selectedSegment", "selectedDomain", "hazards",
     "controls", "constraints", "criteriaValues", "incidents" >>

\* A stored text is written as the sequence of its members, <<key, value>>, a
\* member's value as the value it denotes.  A text that JSON.parse rejects:
Garbage == << << "unparsable", "{lang:" >> >>

\* The members of state in the order of KeyOrder.
Members(state) ==
  LET present(k) == k \in DOMAIN state
      keys == SelectSeq(KeyOrder, present)
  IN  [i \in 1..Len(keys) |-> << keys[i], state[keys[i]] >>]

\* Mutant: the members whose value is null are left out like the undefined ones.
JSONstringify_DropsNull(state) ==
  LET written(m) == ~(m[1] \in StringFields /\ m[2] \in {Undefined, Null})
  IN  SelectSeq(Members(state), written)

\* JSON.stringify(state): a member whose value is undefined is left out;
\* strings, null, finite numbers, arrays and objects are written as they are.
JSONstringify(state) ==
  LET written(m) == ~(m[1] \in StringFields /\ m[2] = Undefined)
  IN  SelectSeq(Members(state), written)

\* JSON.parse(raw) throws a SyntaxError
JSONparseThrows(raw) == \E i \in 1..Len(raw) : raw[i][1] = "unparsable"

\* JSON.parse(raw), raw being a JSON text: the object of its members, the last
\* one of a key giving the key's value
JSONparse(raw) ==
  LET last(k) == CHOOSE i \in 1..Len(raw) :
                   raw[i][1] = k /\ \A j \in (i + 1)..Len(raw) : raw[j][1] # k
  IN  [k \in {raw[i][1] : i \in 1..Len(raw)} |-> raw[last(k)][2]]

\* try { ... } catch { return null; }: no exception leaves loadLS
loadLSThrows(st) == FALSE

\* const raw = localStorage.getItem(LS_KEY); return raw ? JSON.parse(raw) : null;
\* and null when that throws.  The result is <<>> for null, <<value>> otherwise.
loadLSOf(st) ==
  IF st = << >> \/ JSONparseThrows(st[1]) THEN << >> ELSE << JSONparse(st[1]) >>
loadLS == loadLSOf(stored)

\* Mutant: the exception of setItem is not caught.
saveLSThrows_NoCatch == ~storageWorks

\* try { ... } catch {}: no exception leaves saveLS
saveLSThrows == FALSE

\* localStorage.setItem(LS_KEY, JSON.stringify(state)), nothing written when
\* setItem throws
saveLS(state) == stored' = IF storageWorks THEN << JSONstringify(state) >> ELSE stored

\* ------------------------------------------------------------ construction
\* saved?.[f] || dflt for a key that holds a string: undefined, null and ""
\* give the default.
OrDefault(saved, f, dflt) ==
  IF saved # << >> /\ f \in DOMAIN saved[1] /\ saved[1][f] \notin {Null, "", Undefined}
    THEN saved[1][f] ELSE dflt

\* saved?.[f] || dflt for a key that holds an array or an object (truthy even
\* when empty).
OrDefaultColl(saved, f, dflt) ==
  IF saved # << >> /\ f \in DOMAIN saved[1] THEN saved[1][f] ELSE dflt

\* The first render throws a TypeError: TEMPLATES[templateKey] is undefined
\* (template.hazards is read), or I18N[lang] is undefined (t(k) is called),
\* or loadLS threw.
MountThrows(st) ==
  \/ loadLSThrows(st)
  \/ \E saved \in {loadLSOf(st)} :
       \/ OrDefault(saved, "templateKey", "roadShort") \notin Range(TEMPLATE_KEYS)
       \/ OrDefault(saved, "lang", "en") \notin Range(LANGS)

\* The state of the first render of RaceSafetyMVP, saved being what loadLS
\* returned: <<>> (null) or <<document>>.  useState(saved?.x || default).
\* (A render that throws leaves no component; it has saved = <<>> here.)
InitialState(saved) ==
  LET key == OrDefault(saved, "templateKey", "roadShort")
  IN  [lang |-> OrDefault(saved, "lang", "en"),
       templateKey |-> key,
       role |-> OrDefault(saved, "role", "Race Director"),
       selectedSegment |-> OrDefault(saved, "selectedSegment", Null),
       selectedDomain |-> OrDefault(saved, "selectedDomain", Null),
       hazards |-> OrDefaultColl(saved, "hazards", TEMPLATES[key].hazards),
       controls |-> OrDefaultColl(saved, "controls", INITIAL_CONTROLS),
       constraints |-> OrDefaultColl(saved, "constraints", TEMPLATES[key].constraints),
       criteriaValues |-> OrDefaultColl(saved, "criteriaValues", << >>),
       incidents |-> OrDefaultColl(saved, "incidents", << >>),
       incidentType |-> "Heat illness",
       incidentHazardId |-> TEMPLATES[key].hazards[1].id]

\* What the page is built from: nothing when the first render throws.
MountInput(st) == IF MountThrows(st) THEN << >> ELSE loadLSOf(st)

\* The browser opens the page on the storage st, setItem working or not: the
\* component is mounted, both effects pending.
InitFrom(st, works, ops, logs) ==
  \E saved \in {MountInput(st)} : \E m \in {InitialState(saved)} :
      /\ stored = st
      /\ storageWorks = works
      /\ lang = m.lang
      /\ templateKey = m.templateKey
      /\ role = m.role
      /\ selectedSegment = m.selectedSegment
      /\ selectedDomain = m.selectedDomain
      /\ hazards = m.hazards
      /\ controls = m.controls
      /\ constraints = m.constraints
      /\ criteriaValues = m.criteriaValues
      /\ incidents = m.incidents
      /\ incidentType = m.incidentType
      /\ incidentHazardId = m.incidentHazardId
      /\ phase = IF MountThrows(st) THEN "crashed" ELSE "effects"
      /\ pendingReset = ~MountThrows(st)
      /\ clock = 1
      /\ opsLeft = ops
      /\ logsLeft = logs

\* A fresh browser: nothing stored, a storage that works.
InitWith(ops, logs) == InitFrom(<< >>, TRUE, ops, logs)

Init == InitWith(MaxOps, MaxLogs)

\* -------------------------------------------------------------------- trend
\* prevValue={saved?.holisticPct ?? null}: <<>> for null, <<p>> otherwise
prevValueOf(saved) ==
  IF saved = << >> \/ "holisticPct" \notin DOMAIN saved[1]
    THEN << >> ELSE << saved[1].holisticPct >>

\* const trend = prevValue == null ? 0 : v - prevValue
gaugeTrend(value, prev) ==
  IF prev = << >> THEN RInt(0) ELSE RSub(gaugeV(value), prev[1])

\* trend > 1 ? "improving" : trend < -1 ? "degrading" : "stable"
TrendKey(trend) ==
  IF RLess(RInt(1), trend) THEN "improving"
  ELSE IF RLess(trend, RInt(-1)) THEN "degrading" ELSE "stable"

gaugeTrendKey(value, prev) == TrendKey(gaugeTrend(value, prev))

\* The trend the page shows; saved is read from the storage by every render.
shownTrend == gaugeTrendKey(holisticPct, prevValueOf(loadLS))

\* ------------------------------------------------------------------ effects
\* What the template effect writes and what it leaves alone.
resetVars == << hazards, constraints, selectedSegment, selectedDomain >>

\* Mutant: the template effect forgets to clear the two filters.
templateEffect_KeepsFilters ==
  /\ hazards' = template.hazards
  /\ constraints' = template.constraints
  /\ UNCHANGED << selectedSegment, selectedDomain, controls, criteriaValues >>

\* Mutant: the template effect also puts the controls and the scores back.
templateEffect_ResetsControls ==
  /\ hazards' = template.hazards
  /\ constraints' = template.constraints
  /\ selectedSegment' = Null
  /\ selectedDomain' = Null
  /\ controls' = INITIAL_CONTROLS
  /\ criteriaValues' = << >>

\* useEffect(() => { setHazards(template.hazards); setConstraints(template.constraints);
\*   setSelectedSegment(null); setSelectedDomain(null); }, [templateKey])
templateEffect ==
  /\ hazards' = template.hazards
  /\ constraints' = template.constraints
  /\ selectedSegment' = Null
  /\ selectedDomain' = Null
  /\ UNCHANGED << controls, criteriaValues >>

\* Mutant: the object saved has no incidents.
persistEffect_OmitsIncidents ==
  saveLS([k \in DOMAIN Doc \ {"incidents"} |-> Doc[k]])

\* useEffect(() => { saveLS({ lang, templateKey, ... }); }, [lang, templateKey, ...]):
\* the values saved are those of the render the effect belongs to
persistEffect == saveLS(Doc)

\* The effects of the committed render, in declaration order: the template
\* effect when templateKey changed (or on mount), then the persist effect.
\* The state the template effect sets is rendered next, and that render's
\* persist effect is then pending.
RunEffects ==
  /\ phase = "effects"
  /\ IF pendingReset
       THEN templateEffect
       ELSE UNCHANGED << resetVars, controls, criteriaValues >>
  /\ persistEffect
  /\ pendingReset' = FALSE
  /\ phase' = IF saveLSThrows THEN "crashed"
              ELSE IF resetVars' = resetVars THEN "idle" ELSE "effects"
  /\ UNCHANGED << lang, templateKey, role, incidents, formVars, storageWorks, clock, opsLeft,
                  logsLeft >>

\* ------------------------------------------------------------ user operations
\* An event handler runs on a rendered page whose effects have run.
Ready == phase = "idle" /\ opsLeft > 0

\* The handler's state updates are rendered; the persist effect is pending,
\* and the template effect too when templateKey changed.
Rendered(templateChanged) ==
  /\ phase' = "effects"
  /\ pendingReset' = templateChanged
  /\ opsLeft' = opsLeft - 1
  /\ UNCHANGED << stored, storageWorks, clock, logsLeft >>

\* The values the model's user gives to the sliders and selects.
SODVals == {10}
PercentVals == {0}
UcaVals == {5}
EditedHazardIds == {"H1"}
EditedControlIds == {"C1"}
EditedConstraintIds == {"S1"}
EditedCriteria == {<<"Health / Sanitary", "aed">>}
PickedRoles == {"Race Director", "Medical Lead", "PR / Media Lead"}
PickedSegments == {"SEG-START", "SEG-ALL"}
PickedDomains == {"Health / Sanitary"}
PickedIncidentTypes == {"Heat illness", "Trail fall"}
PickedHazardIds == {"H1", "H2", "H7"}

\* onClick={() => setLang(L.code)}
SetLang(l) ==
  /\ Ready
  /\ l # lang
  /\ lang' = l
  /\ Rendered(FALSE)
  /\ UNCHANGED << templateKey, role, selectedSegment, selectedDomain, hazards, controls,
                  constraints, criteriaValues, incidents, formVars >>

\* onChange={(e) => setTemplateKey(e.target.value)}; a select fires change
\* only for another option than the current one
SelectTemplate(k) ==
  /\ Ready
  /\ k # templateKey
  /\ templateKey' = k
  /\ Rendered(TRUE)
  /\ UNCHANGED << lang, role, selectedSegment, selectedDomain, hazards, controls,
                  constraints, criteriaValues, incidents, formVars >>

\* onChange={(e) => setRole(e.target.value)}
SetRole(r) ==
  /\ Ready
  /\ r # role
  /\ role' = r
  /\ Rendered(FALSE)
  /\ UNCHANGED << lang, templateKey, selectedSegment, selectedDomain, hazards, controls,
                  constraints, criteriaValues, incidents, formVars >>

\* setSelectedSegment((prev) => (prev === s.id ? null : s.id)), s of template.segments
ToggleSegment(s) ==
  /\ Ready
  /\ s \in Range(segments)
  /\ selectedSegment' = IF selectedSegment = s THEN Null ELSE s
  /\ Rendered(FALSE)
  /\ UNCHANGED << lang, templateKey, role, selectedDomain, hazards, controls,
                  constraints, criteriaValues, incidents, formVars >>

\* setSelectedDomain((prev) => (prev === d ? null : d)), d of visibleDomains
ToggleDomain(d) ==
  /\ Ready
  /\ d \in Range(visibleDomains)
  /\ selectedDomain' = IF selectedDomain = d THEN Null ELSE d
  /\ Rendered(FALSE)
  /\ UNCHANGED << lang, templateKey, role, selectedSegment, hazards, controls,
                  constraints, criteriaValues, incidents, formVars >>

\* const clearFilters = () => { setSelectedSegment(null); setSelectedDomain(null); }
\* (no render when both are null already)
clearFilters ==
  /\ Ready
  /\ selectedSegment # Null \/ selectedDomain # Null
  /\ selectedSegment' = Null
  /\ selectedDomain' = Null
  /\ Rendered(FALSE)
  /\ UNCHANGED << lang, templateKey, role, hazards, controls, constraints,
                  criteriaValues, incidents, formVars >>

\* prev.map((x) => (x.id === id ? { ...x, [k]: v } : x))
SetById(seq, id, k, v) ==
  [i \in 1..Len(seq) |-> IF seq[i].id = id THEN [seq[i] EXCEPT ![k] = v] ELSE seq[i]]

Ids(seq) == {seq[i].id : i \in 1..Len(seq)}

\* The S, O and D sliders (min 1, max 10, step 1) of a hazard of filteredHazards:
\* { ...x, [k]: Number(e.target.value) }
SetHazardField(id, k, v) ==
  /\ Ready
  /\ id \in Ids(filteredHazards)
  /\ v \in 1..10
  /\ hazards' = SetById(hazards, id, k, v)
  /\ hazards' # hazards
  /\ Rendered(FALSE)
  /\ UNCHANGED << lang, templateKey, role, selectedSegment, selectedDomain, controls,
                  constraints, criteriaValues, incidents, formVars >>

\* The controlsActive slider (min 0, max 100, step 5):
\* { ...x, controlsActive: e.target.value / 100 }
SetControlsActive(id, v) ==
  /\ Ready
  /\ id \in Ids(filteredHazards)
  /\ v \in 0..100 /\ v % 5 = 0
  /\ hazards' = SetById(hazards, id, "controlsActive", v)
  /\ hazards' # hazards
  /\ Rendered(FALSE)
  /\ UNCHANGED << lang, templateKey, role, selectedSegment, selectedDomain, controls,
                  constraints, criteriaValues, incidents, formVars >>

\* The readiness slider (0..100, step 5) of a control of filteredControls
SetControlReadiness(id, v) ==
  /\ Ready
  /\ id \in Ids(filteredControls)
  /\ v \in 0..100 /\ v % 5 = 0
  /\ controls' = SetById(controls, id, "readiness", v)
  /\ controls' # controls
  /\ Rendered(FALSE)
  /\ UNCHANGED << lang, templateKey, role, selectedSegment, selectedDomain, hazards,
                  constraints, criteriaValues, incidents, formVars >>

\* The UCA count slider (0..5, step 1) of a control of filteredControls
SetControlUca(id, v) ==
  /\ Ready
  /\ id \in Ids(filteredControls)
  /\ v \in 0..5
  /\ controls' = SetById(controls, id, "ucaCount", v)
  /\ controls' # controls
  /\ Rendered(FALSE)
  /\ UNCHANGED << lang, templateKey, role, selectedSegment, selectedDomain, hazards,
                  constraints, criteriaValues, incidents, formVars >>

\* The status select of a constraint: { ...x, status: e.target.value }
SetConstraintStatus(id, v) ==
  /\ Ready
  /\ id \in Ids(constraints)
  /\ v \in {"pass", "warn", "fail"}
  /\ constraints' = SetById(constraints, id, "status", v)
  /\ constraints' # constraints
  /\ Rendered(FALSE)
  /\ UNCHANGED << lang, templateKey, role, selectedSegment, selectedDomain, hazards,
                  controls, criteriaValues, incidents, formVars >>

\* setCriterionValue(d, c.id, e.target.value / 100), d of visibleDomains,
\* the slider showing pct(val01)
setCriterionValue(d, c, v) ==
  /\ Ready
  /\ d \in Range(visibleDomains)
  /\ c \in Range(READINESS_CRITERIA[d])
  /\ v \in 0..100 /\ v % 5 = 0
  /\ Rat(v, 100) # criterionValue(criteriaValues, d, c)
  /\ criteriaValues' =
       [p \in DOMAIN criteriaValues \cup {<<d, c>>} |->
          IF p = <<d, c>> THEN v ELSE criteriaValues[p]]
  /\ Rendered(FALSE)
  /\ UNCHANGED << lang, templateKey, role, selectedSegment, selectedDomain, hazards,
                  controls, constraints, incidents, formVars >>

\* onChange={(e) => setIncidentType(e.target.value)}: no dependency of an effect
SetIncidentType(ty) ==
  /\ Ready
  /\ ty \in Range(INCIDENT_TYPES)
  /\ ty # incidentType
  /\ incidentType' = ty
  /\ opsLeft' = opsLeft - 1
  /\ UNCHANGED << docVars, incidentHazardId, stored, storageWorks, phase, pendingReset, clock,
                  logsLeft >>

\* onChange={(e) => setIncidentHazardId(e.target.value)}: an option of hazards
SetIncidentHazardId(id) ==
  /\ Ready
  /\ id \in Ids(hazards)
  /\ id # incidentHazardId
  /\ incidentHazardId' = id
  /\ opsLeft' = opsLeft - 1
  /\ UNCHANGED << docVars, incidentType, stored, storageWorks, phase, pendingReset, clock,
                  logsLeft >>


\* Mutant: the record is put at the end of the log.
pushIncident_Append(rec, prev) ==
  LET all == prev \o << rec >>
  IN  SubSeq(all, 1, Min2(Len(all), IncidentCap))

\* Mutant: the log is not cut.
pushIncident_NoSlice(rec, prev) == << rec >> \o prev

\* [rec, ...prev].slice(0, 20)
pushIncident(rec, prev) ==
  LET all == << rec >> \o prev
  IN  SubSeq(all, 1, Min2(Len(all), IncidentCap))

\* Mutant: the occurrence is not clamped.
bumpOccurrence_NoClamp(h) == [h EXCEPT !.O = h.O + 1]

\* Mutant: the incident raises the severity as well.
bumpOccurrence_AlsoSeverity(h) ==
  [h EXCEPT !.O = clamp(h.O + 1, 1, 10), !.S = clamp(h.S + 1, 1, 10)]

\* { ...h, O: clamp(h.O + 1, 1, 10) }
bumpOccurrence(h) == [h EXCEPT !.O = clamp(h.O + 1, 1, 10)]

\* const logIncident = () => { ... }
logIncident ==
  /\ phase = "idle"
  /\ logsLeft > 0
  /\ incidentHazardId # ""
  /\ incidents' =
       pushIncident([type |-> incidentType, hazardId |-> incidentHazardId, ts |-> clock],
                    incidents)
  /\ hazards' = [i \in 1..Len(hazards) |->
                   IF hazards[i].id = incidentHazardId
                     THEN bumpOccurrence(hazards[i]) ELSE hazards[i]]
  /\ clock' = clock + 1
  /\ logsLeft' = logsLeft - 1
  /\ phase' = "effects"
  /\ pendingReset' = FALSE
  /\ UNCHANGED << lang, templateKey, role, selectedSegment, selectedDomain, controls,
                  constraints, criteriaValues, formVars, stored, storageWorks, opsLeft >>

\* The page is loaded again: the component is constructed from loadLS().
Reload ==
  /\ Ready
  /\ \E saved \in {MountInput(stored)} : \E m \in {InitialState(saved)} :
         /\ lang' = m.lang
         /\ templateKey' = m.templateKey
         /\ role' = m.role
         /\ selectedSegment' = m.selectedSegment
         /\ selectedDomain' = m.selectedDomain
         /\ hazards' = m.hazards
         /\ controls' = m.controls
         /\ constraints' = m.constraints
         /\ criteriaValues' = m.criteriaValues
         /\ incidents' = m.incidents
         /\ incidentType' = m.incidentType
         /\ incidentHazardId' = m.incidentHazardId
  /\ phase' = IF MountThrows(stored) THEN "crashed" ELSE "effects"
  /\ pendingReset' = ~MountThrows(stored)
  /\ opsLeft' = opsLeft - 1
  /\ UNCHANGED << stored, storageWorks, clock, logsLeft >>

\* ------------------------------------------------------------ specifications
Next ==
  \/ RunEffects
  \/ \E l \in Range(LANGS) : SetLang(l)
  \/ \E k \in Range(TEMPLATE_KEYS) : SelectTemplate(k)
  \/ \E r \in PickedRoles : SetRole(r)
  \/ \E s \in PickedSegments : ToggleSegment(s)
  \/ \E d \in PickedDomains : ToggleDomain(d)
  \/ clearFilters
  \/ \E id \in EditedHazardIds, k \in {"S", "O", "D"}, v \in SODVals : SetHazardField(id, k, v)
  \/ \E id \in EditedHazardIds, v \in PercentVals : SetControlsActive(id, v)
  \/ \E id \in EditedControlIds, v \in PercentVals : SetControlReadiness(id, v)
  \/ \E id \in EditedControlIds, v \in UcaVals : SetControlUca(id, v)
  \/ \E id \in EditedConstraintIds, v \in {"pass", "warn", "fail"} : SetConstraintStatus(id, v)
  \/ \E p \in EditedCriteria, v \in PercentVals : setCriterionValue(p[1], p[2], v)
  \/ \E ty \in PickedIncidentTypes : SetIncidentType(ty)
  \/ \E id \in PickedHazardIds : SetIncidentHazardId(id)
  \/ logIncident
  \/ Reload

Spec == Init /\ [][Next]_vars

\* The incident form and the hazard sliders, used long enough to fill the log.
InitLog == InitWith(MaxLogSetup, MaxLogDepth)

NextLog ==
  \/ RunEffects
  \/ \E k \in Range(TEMPLATE_KEYS) : SelectTemplate(k)
  \/ \E id \in PickedHazardIds : SetIncidentHazardId(id)
  \/ \E id \in EditedHazardIds, v \in SODVals : SetHazardField(id, "O", v)
  \/ \E id \in EditedHazardIds, v \in PercentVals : SetControlsActive(id, v)
  \/ logIncident
  \/ Reload

SpecLog == InitLog /\ [][NextLog]_vars


\* Sessions opened on a storage that an earlier session, an older version of
\* the page or the user left behind, with setItem working or not.
MaxStartOps == 2

\* The document a session persists that changed nothing.
DefaultDoc ==
  [lang |-> "en", templateKey |-> "roadShort", role |-> "Race Director",
   selectedSegment |-> Null, selectedDomain |-> Null,
   hazards |-> TEMPLATES["roadShort"].hazards, controls |-> INITIAL_CONTROLS,
   constraints |-> TEMPLATES["roadShort"].constraints,
   criteriaValues |-> << >>, incidents |-> << >>]

\* The document of a session that edited: another role, a filter, the worst
\* hazard, a control without readiness, a criterion, a logged incident.
EditedDoc ==
  [DefaultDoc EXCEPT
     !.role = "Environmental Lead",
     !.selectedSegment = "SEG-START",
     !.hazards = << Hz("H1", "Health / Sanitary", 10, 10, 10, 0, 13, "SEG-START") >>
                   \o Tail(TEMPLATES["roadShort"].hazards),
     !.controls = << Ct("C1", "Heat / Cold Protocol", 0, 5) >> \o Tail(INITIAL_CONTROLS),
     !.criteriaValues = [p \in {<<"Health / Sanitary", "aed">>} |-> 0],
     !.incidents = << [type |-> "Heat illness", hazardId |-> "H1", ts |-> 0] >>]

\* A document with empty collections.
EmptyDoc ==
  [DefaultDoc EXCEPT !.hazards = << >>, !.controls = << >>, !.constraints = << >>]

\* A document without the collections.
KeysOnlyDoc == [lang |-> "el", templateKey |-> "trailUltra", role |-> "Medical Lead"]

StartStorage ==
  { << >>, << Garbage >>, << JSONstringify(DefaultDoc) >>, << JSONstringify(EditedDoc) >>,
    << JSONstringify(EmptyDoc) >>, << JSONstringify(KeysOnlyDoc) >>,
    << JSONstringify([DefaultDoc EXCEPT !.templateKey = "roadLong"]) >>,
    << JSONstringify([DefaultDoc EXCEPT !.lang = "fr"]) >>,
    << JSONstringify([DefaultDoc EXCEPT !.role = "Marshal"]) >> }

\* The values given to the sliders in these sessions: both ends.
StartSODVals == {1, 10}
StartPercentVals == {0, 100}
StartUcaVals == {0, 5}

InitStart ==
  \E st \in StartStorage, works \in BOOLEAN : InitFrom(st, works, MaxStartOps, 0)

NextStart ==
  \/ RunEffects
  \/ \E r \in PickedRoles : SetRole(r)
  \/ \E id \in EditedHazardIds, v \in StartSODVals : SetHazardField(id, "S", v)
  \/ \E id \in EditedHazardIds, v \in StartPercentVals : SetControlsActive(id, v)
  \/ \E id \in EditedControlIds, v \in StartPercentVals : SetControlReadiness(id, v)
  \/ \E id \in EditedControlIds, v \in StartUcaVals : SetControlUca(id, v)
  \/ Reload

SpecStart == InitStart /\ [][NextStart]_vars


\* The incident form used on hazards whose occurrence and controls were
\* edited, in the template of the session or in another one.
MaxIncidentOps == 2
MaxIncidentLogs == 2

\* The occurrence values given: one below the maximum, and the maximum.
IncidentOVals == {9, 10}

InitIncident == InitWith(MaxIncidentOps, MaxIncidentLogs)

NextIncident ==
  \/ RunEffects
  \/ \E k \in {"roadMarathon"} : SelectTemplate(k)
  \/ \E id \in PickedHazardIds : SetIncidentHazardId(id)
  \/ \E id \in EditedHazardIds, v \in IncidentOVals : SetHazardField(id, "O", v)
  \/ \E id \in EditedHazardIds, v \in StartPercentVals : SetControlsActive(id, v)
  \/ logIncident

SpecIncident == InitIncident /\ [][NextIncident]_vars


\* The role select and the two filters, used on records that were edited.
MaxViewOps == 2

\* The roles taken: one seeing two controls and two domains, two seeing no
\* control and one domain each.
ViewRoles == {"Medical Lead", "PR / Media Lead", "Finance Lead"}

InitView == InitWith(MaxViewOps, 0)

NextView ==
  \/ RunEffects
  \/ \E r \in ViewRoles : SetRole(r)
  \/ \E s \in PickedSegments : ToggleSegment(s)
  \/ \E d \in PickedDomains : ToggleDomain(d)
  \/ clearFilters
  \/ \E id \in EditedHazardIds, v \in StartSODVals : SetHazardField(id, "S", v)
  \/ \E id \in EditedControlIds, v \in StartPercentVals : SetControlReadiness(id, v)
  \/ \E id \in EditedControlIds, v \in StartUcaVals : SetControlUca(id, v)

SpecView == InitView /\ [][NextView]_vars


\* The criterion sliders and the constraint selects, in sessions opened on
\* nothing, on a document with no readiness at all, and on a document whose
\* constraints are not all critical.
MaxGateOps == 2

\* Every criterion scored 0 and every control at readiness 0.
LowDoc ==
  [DefaultDoc EXCEPT
     !.criteriaValues =
        [p \in UNION {{<<d, READINESS_CRITERIA[d][j]>> : j \in 1..Len(READINESS_CRITERIA[d])} :
                         d \in Range(DOMAINS)} |-> 0],
     !.controls = [i \in 1..Len(INITIAL_CONTROLS) |->
                     [INITIAL_CONTROLS[i] EXCEPT !.readiness = 0]]]

\* A non-critical constraint that fails, a critical one that warns, and every
\* control at readiness 0.
LooseDoc ==
  [DefaultDoc EXCEPT
     !.constraints = << [id |-> "S1", critical |-> FALSE, status |-> "fail"],
                        [id |-> "S2", critical |-> TRUE, status |-> "warn"],
                        [id |-> "S3", critical |-> TRUE, status |-> "pass"] >>,
     !.controls = [i \in 1..Len(INITIAL_CONTROLS) |->
                     [INITIAL_CONTROLS[i] EXCEPT !.readiness = 0]]]

GateStorage == { << >>, << JSONstringify(LowDoc) >>, << JSONstringify(LooseDoc) >> }

\* A criterion of a domain with three criteria and one of a domain with four.
GateCriteria == {<<"Health / Sanitary", "aed">>, <<"Operational", "traffic">>}

InitGate == \E st \in GateStorage : InitFrom(st, TRUE, MaxGateOps, 0)

NextGate ==
  \/ RunEffects
  \/ \E p \in GateCriteria, v \in StartPercentVals : setCriterionValue(p[1], p[2], v)
  \/ \E id \in EditedConstraintIds, v \in {"pass", "warn", "fail"} :
       SetConstraintStatus(id, v)

SpecGate == InitGate /\ [][NextGate]_vars


\* ==================================================================== claims

\* C1 (as claimed): whenever a critical constraint has status "fail", the gauge
\* shows the status ConstraintFail and the value 0 (needle and number), whatever
\* the holistic value is.
C1_GateShowsZero ==
  anyCriticalFail =>
    /\ shownStatus = "constraintFail"
    /\ shownNeedle = RInt(0)
    /\ shownValue = 0

\* The hazards, the constraints and the segments are the template's, no filter is set.
TemplateDefaults ==
  /\ hazards = TEMPLATES[templateKey].hazards
  /\ constraints = TEMPLATES[templateKey].constraints
  /\ segments = TEMPLATES[templateKey].segments
  /\ selectedSegment = Null
  /\ selectedDomain = Null

\* C2: a template switch completes with the hazards, constraints and segments of
\* the selected template and with both filters null, whatever the state before
\* was: the step that runs the pending template effect ends in that state, and
\* the step that runs the remaining persist effect keeps it.
C2_TemplateSwitchResets ==
  [][ /\ pendingReset => TemplateDefaults'
      /\ (phase = "effects" /\ ~pendingReset) =>
           (UNCHANGED << resetVars, templateKey >> /\ phase' = "idle") ]_vars

\* C2 witness: the template effect has just run for a switch from roadShort to
\* roadMarathon; the render it started from (the one persisted) still had the
\* six roadShort hazards, edited, and a segment filter.
C2_Witness ==
  /\ phase = "effects" /\ ~pendingReset
  /\ loadLS # << >>
  /\ loadLS[1].templateKey = "roadMarathon"
  /\ Len(loadLS[1].hazards) = 6
  /\ loadLS[1].hazards # TEMPLATES["roadShort"].hazards
  /\ loadLS[1].selectedSegment # Null
  /\ templateKey = "roadMarathon"
  /\ TemplateDefaults

\* C3: neither the template select's handler nor the template effect changes a
\* control or a criterion score.
C3_SwitchKeepsControls ==
  [][ (templateKey' # templateKey \/ pendingReset) =>
        (controls' = controls /\ criteriaValues' = criteriaValues) ]_vars

\* C3 witness: the template effect has just run for a switch from roadShort to
\* roadMarathon made with an edited control and an entered criterion score,
\* and both are still what the render before the effect had.
C3_Witness ==
  /\ phase = "effects" /\ ~pendingReset
  /\ loadLS # << >>
  /\ loadLS[1].templateKey = "roadMarathon"
  /\ Len(loadLS[1].hazards) = 6
  /\ hazards = TEMPLATES["roadMarathon"].hazards
  /\ controls # INITIAL_CONTROLS
  /\ criteriaValues # << >>
  /\ controls = loadLS[1].controls
  /\ criteriaValues = loadLS[1].criteriaValues

\* C4 (as claimed): logging an incident whose hazardId is the id of no current
\* hazard appends nothing to the log and changes no hazard.
C4_StaleLogRefused ==
  [][ (logIncident /\ incidentHazardId \notin Ids(hazards)) =>
        (incidents' = incidents /\ hazards' = hazards) ]_vars

\* C5 (as claimed): every incident of the log names a hazard of the current
\* hazard collection.
C5_IncidentsReferenceHazards ==
  \A i \in 1..Len(incidents) : incidents[i].hazardId \in Ids(hazards)


\* The record logIncident builds in the current state.
NewIncident == [type |-> incidentType, hazardId |-> incidentHazardId, ts |-> clock]

\* C6 (as claimed): logging an incident against an existing hazard with O < 10
\* raises its O by one and puts one new record for it at the head of the log,
\* all the earlier records following in their order.
C6_LogPrependsKeepingAll ==
  [][ logIncident =>
        \A i \in 1..Len(hazards) :
          (hazards[i].id = incidentHazardId /\ hazards[i].O < 10) =>
            /\ hazards'[i].O = hazards[i].O + 1
            /\ incidents' = << NewIncident >> \o incidents ]_vars

\* C6 (amended): logging an incident against an existing hazard with O < 10
\* raises its O by one and puts one new record for it at the head of the log;
\* the earlier records follow in their order, the oldest one being dropped when
\* the log already held 20.
C6_LogPrepends ==
  [][ logIncident =>
        \A i \in 1..Len(hazards) :
          (hazards[i].id = incidentHazardId /\ hazards[i].O < 10) =>
            /\ hazards'[i].O = hazards[i].O + 1
            /\ Len(incidents') = Min2(Len(incidents) + 1, IncidentCap)
            /\ incidents'[1] = NewIncident
            /\ incidents'[1].hazardId = hazards[i].id
            /\ \A j \in 2..Len(incidents') : incidents'[j] = incidents[j - 1] ]_vars

\* C6 witness: the 21st incident was logged against H2 of roadShort, whose O
\* went from 4 to 5, into a log that was full.
C6_Witness ==
  /\ Len(incidents) = IncidentCap
  /\ incidents[1].ts = IncidentCap + 1
  /\ incidents[1].hazardId = "H2"
  /\ templateKey = "roadShort"
  /\ hazards[2].id = "H2" /\ hazards[2].O = 5

\* C7: every hazard has S, O and D in 1..10, controlsActive in [0, 1]
\* (0..100 hundredths) and a positive weight, in every reachable state.
C7_HazardRanges ==
  \A i \in 1..Len(hazards) :
    /\ hazards[i].S \in 1..10
    /\ hazards[i].O \in 1..10
    /\ hazards[i].D \in 1..10
    /\ hazards[i].controlsActive \in 0..100
    /\ hazards[i].weight > 0

\* C7 witness: twenty incidents logged against H1 and nothing else done; its O
\* reached 10 with the sixth and stayed there.
C7_Witness ==
  /\ opsLeft = MaxLogSetup
  /\ Len(incidents) = IncidentCap
  /\ \A i \in 1..Len(incidents) : incidents[i].hazardId = "H1"
  /\ hazards[1].id = "H1" /\ hazards[1].O = 10

\* C8: the log never holds more than 20 records and is newest first; logging
\* into a full log puts the new record at the head and drops the oldest only.
C8_LogBounded ==
  /\ [](/\ Len(incidents) <= IncidentCap
        /\ \A i, j \in 1..Len(incidents) : i < j => incidents[i].ts > incidents[j].ts)
  /\ [][ (logIncident /\ Len(incidents) = IncidentCap) =>
           /\ Head(incidents') = NewIncident
           /\ Tail(incidents') = SubSeq(incidents, 1, IncidentCap - 1) ]_vars

\* C8 witness: a full log whose head was logged after the log was full and whose
\* last record is the 19th before the head.
C8_Witness ==
  /\ Len(incidents) = IncidentCap
  /\ incidents[1].ts > IncidentCap
  /\ incidents[IncidentCap].ts = incidents[1].ts - (IncidentCap - 1)

\* C9 (as claimed): a hazard is rendered iff its domain is visible to the role,
\* the domain filter is unset or its domain, and the segment filter is unset,
\* its segment, or its segment is the wildcard SEG-ALL.
C9_VisibleHazardRule ==
  \A i \in 1..Len(hazards) :
    (hazards[i] \in Range(filteredHazards)) <=>
      /\ hazards[i].domain \in Range(visibleDomains)
      /\ (selectedDomain = Null \/ selectedDomain = hazards[i].domain)
      /\ \/ selectedSegment = Null
         \/ selectedSegment = hazards[i].segmentId
         \/ hazards[i].segmentId = "SEG-ALL"

\* C10: for every role, a control is in the visible list iff the role sees all
\* controls or the control's name is in its allow-list; an empty allow-list
\* gives the empty list; the list keeps the order of the controls and holds
\* them unchanged.
C10_VisibleControlRule ==
  \A r \in Range(ROLES) :
    LET fc == filteredControlsOf(controls, r)
        all == r \in AllControlsRoles
        allow == IF all THEN {} ELSE Range(ROLE_CONTROLS[r])
        pos(c) == CHOOSE i \in 1..Len(controls) : controls[i] = c
    IN  /\ \A i \in 1..Len(controls) :
             (controls[i] \in Range(fc)) <=> (all \/ controls[i].name \in allow)
        /\ (~all /\ allow = {}) => fc = << >>
        /\ Range(fc) \subseteq Range(controls)
        /\ \A a, b \in 1..Len(fc) : a < b => pos(fc[a]) < pos(fc[b])

\* C10 witness: the Medical Lead sees C1 and C3, in that order, of controls
\* that were edited.
C10_Witness ==
  /\ role = "Medical Lead"
  /\ controls # INITIAL_CONTROLS
  /\ Len(filteredControls) = 2
  /\ filteredControls[1].id = "C1"
  /\ filteredControls[2].id = "C3"


\* The fields of a hazard that no handler writes.
HazardIdentity(h) == << h.id, h.domain, h.segmentId, h.weight >>

\* The hazards, the constraints and the segment filter of the document d belong
\* to the template its templateKey names.
BelongsToTemplate(d) ==
  LET tpl == TEMPLATES[d.templateKey]
  IN  /\ Len(d.hazards) = Len(tpl.hazards)
      /\ \A i \in 1..Len(d.hazards) :
           HazardIdentity(d.hazards[i]) = HazardIdentity(tpl.hazards[i])
      /\ Len(d.constraints) = Len(tpl.constraints)
      /\ \A i \in 1..Len(d.constraints) : d.constraints[i].id = tpl.constraints[i].id
      /\ d.selectedSegment \in Range(tpl.segments) \cup {Null}

\* C11 (as claimed): no rendered and no persisted state has the templateKey of
\* one template with the hazards, constraints or segment filter of another, and
\* the render that shows a new templateKey already shows that template's
\* defaults with both filters cleared.
C11_NoIntermediateState ==
  /\ [](/\ BelongsToTemplate(Doc)
        /\ loadLS # << >> => BelongsToTemplate(loadLS[1]))
  /\ [][ templateKey' # templateKey => TemplateDefaults' ]_vars

\* C12: every step that changes the document leaves the persist effect pending,
\* and once the effects have run (the storage taking the write) the stored
\* text is the current document.
C12_PersistedAfterMutation ==
  /\ []((phase = "idle" /\ storageWorks) => loadLS = << Doc >>)
  /\ [][ docVars' # docVars => phase' = "effects" ]_vars

\* C12 witness: after a template switch, a hazard edit and a logged incident,
\* the effects have run and the stored text is the document on the page.
C12_Witness ==
  /\ phase = "idle"
  /\ templateKey = "roadMarathon"
  /\ hazards # TEMPLATES["roadMarathon"].hazards
  /\ Len(incidents) = 1
  /\ opsLeft = 0
  /\ loadLS = << Doc >>

\* The document is one a session of this page persists: every key, and keys
\* of the catalogs.
IsSessionDoc(d) ==
  /\ DOMAIN d = Range(KeyOrder)
  /\ d.lang \in Range(LANGS)
  /\ d.templateKey \in Range(TEMPLATE_KEYS)
  /\ d.role \in Range(ROLES)

\* The holistic value of the page that persisted the document d.
holisticOfDoc(d) ==
  holisticPctOf(pct(avg(readinessFromCriteria(READINESS_CRITERIA, d.criteriaValues))),
                controlHealthPct(filteredControlsOf(d.controls, d.role)),
                riskLoadPctOf(d.hazards))

\* C13 (as claimed): in a session opened on the document of an earlier session,
\* the trend shown is that of the current holistic value minus the value p of
\* that document: improving above +1, degrading below -1, stable otherwise.
\* (Stated for the sessions whose storage refuses every write: their stored
\* text is, all along, the one read when the session started.)
C13_TrendAcrossSessions ==
  (phase # "crashed" /\ ~storageWorks /\ loadLS # << >> /\ IsSessionDoc(loadLS[1])) =>
    \A currentValue \in {gaugeV(holisticPct)}, p \in {holisticOfDoc(loadLS[1])} :
      \A trend \in {RSub(currentValue, p)} : shownTrend = TrendKey(trend)

\* C14: the text saveLS writes for the document of a render is read back by
\* loadLS as that document, key for key.
C14_RoundTrip ==
  [][ (RunEffects /\ storageWorks) =>
        /\ loadLSOf(stored') = << Doc >>
        /\ DOMAIN loadLSOf(stored')[1] = Range(KeyOrder)
        /\ \A k \in Range(KeyOrder) : loadLSOf(stored')[1][k] = Doc[k] ]_vars

\* C14 witness: a document with a null and a non-null filter, a criterion
\* score, an edited control and an incident was saved and reads back equal.
C14_Witness ==
  /\ phase = "idle"
  /\ selectedSegment = Null /\ selectedDomain # Null
  /\ criteriaValues # << >>
  /\ Len(incidents) = 1
  /\ loadLS = << Doc >>

\* C15: a save that fails changes neither the stored text nor the state in
\* memory and leaves the page working, the only page that is down being one
\* whose first render threw; a text that is missing or cannot be parsed is
\* loaded as null and the session starts from the defaults.
C15_PersistenceFailuresContained ==
  /\ [](/\ phase = "crashed" => MountThrows(stored)
        /\ (stored = << >> \/ JSONparseThrows(stored[1])) => loadLS = << >>
        /\ ((stored = << >> \/ JSONparseThrows(stored[1])) /\ opsLeft = MaxStartOps) =>
             (phase # "crashed" /\ Doc = DefaultDoc))
  /\ [][ (RunEffects /\ ~storageWorks) =>
           /\ stored' = stored
           /\ phase' # "crashed"
           /\ ~pendingReset => (UNCHANGED << docVars, formVars >> /\ phase' = "idle")
       ]_vars
  /\ [][ (Reload /\ (stored = << >> \/ JSONparseThrows(stored[1]))) =>
           (Doc' = DefaultDoc /\ phase' = "effects" /\ pendingReset') ]_vars

\* C15 witness: on a storage holding an unparsable text and refusing writes,
\* the page was used, reloaded, and started from the defaults again.
C15_Witness ==
  /\ stored = << Garbage >>
  /\ ~storageWorks
  /\ opsLeft = 0
  /\ phase = "idle"
  /\ loadLS = << >>
  /\ Doc = DefaultDoc

\* The record store can be scored: a template, a language and a role view
\* exist for its keys and its collections are sequences of the right records.
Scoreable ==
  /\ phase # "crashed"
  /\ templateKey \in Range(TEMPLATE_KEYS)
  /\ lang \in Range(LANGS)
  /\ C7_HazardRanges

\* C16 (as claimed): whatever text the storage holds when a session starts,
\* the page is up and its record store can be scored.
C16_NothingFatalAtStart == Scoreable


\* 0 <= x <= 100, x a rational
InPercentRange(x) == RLeq(RInt(0), x) /\ RLeq(x, RInt(100))

\* C17: the risk load, the control health, the readiness and the holistic
\* value of the page are within [0, 100] in every state, the states with no
\* hazard, no control and no criterion score included.
C17_ScoresInRange ==
  /\ \A rl \in {riskLoadPct}, cp \in {controlPct}, rp \in {readinessPct} :
       /\ InPercentRange(rl)
       /\ cp \in 0..100
       /\ rp \in 0..100
       /\ \A h \in {holisticPctOf(rp, cp, rl)} : h = holisticPct /\ InPercentRange(h)
  /\ \A rl \in {riskLoadPctOf(<< >>)} : InPercentRange(rl)
  /\ controlHealthPct(<< >>) \in 0..100

\* C17 witness: the first render of a session opened on a stored document with
\* empty collections scores no hazard, no control and no criterion score:
\* risk load 0, control health 100, readiness 75, holistic value 90.
C17_Witness ==
  /\ hazards = << >> /\ controls = << >> /\ criteriaValues = << >>
  /\ riskLoadPct = RInt(0)
  /\ controlPct = 100
  /\ readinessPct = 75
  /\ holisticPct = RInt(90)

\* domainRisk(d) / 10 for each of the ten domains, not clamped
DomainRiskTenths(hs) ==
  [i \in 1..Len(DOMAINS) |-> RDivInt(domainRiskScore(hs, DOMAINS[i]), 10)]

\* C18 (as claimed): riskLoadPct is 100 minus the clamped mean, over the ten
\* domains, of domainRisk(d) / 10.
C18_RiskLoadInverted ==
  riskLoadPct = RSub(RInt(100), RClamp(avg(DomainRiskTenths(hazards)), 0, 100))

RECURSIVE SumOver(_, _)
\* The sum of the rationals f[i], i in the set I.
SumOver(f, I) ==
  IF I = {} THEN RInt(0)
  ELSE LET i == CHOOSE j \in I : TRUE
       IN  CHOOSE r \in {RAdd(f[i], rest) : rest \in {SumOver(f, I \ {i})}} : TRUE

\* The residual risk of the hazards of the i-th domain, summed, in thousandths.
DomainResidualSum(hs, i) ==
  LET I == {j \in 1..Len(hs) : hs[j].domain = DOMAINS[i]}
  IN  SumOver([j \in 1..Len(hs) |->
                 RInt(hs[j].S * hs[j].O * hs[j].D * (100 - hs[j].controlsActive)
                      * hs[j].weight)], I)

\* The clamped domainRisk(d) / 10 of the i-th domain.
DomainRiskPct(hs, i) ==
  LET n == Cardinality({j \in 1..Len(hs) : hs[j].domain = DOMAINS[i]})
      m == IF n = 0 THEN RInt(0) ELSE RDivInt(DomainResidualSum(hs, i), n * 10000)
  IN  IF RLess(RInt(100), m) THEN RInt(100) ELSE m

\* C18 (amended): riskLoadPct is the mean over the ten domains of
\* domainRisk(d) / 10, each clamped to [0, 100] before the mean (0 for a domain
\* without hazard), and it is not inverted: an edit that lowers no hazard's
\* residual risk does not lower riskLoadPct.
C18_RiskLoad ==
  /\ [](\A pcts \in {[i \in 1..Len(DOMAINS) |-> DomainRiskPct(hazards, i)]} :
          riskLoadPct = RDivInt(SumOver(pcts, 1..Len(DOMAINS)), Len(DOMAINS)))
  /\ [][ (/\ hazards' # hazards
          /\ Len(hazards') = Len(hazards)
          /\ \A i \in 1..Len(hazards) :
               /\ hazards'[i].domain = hazards[i].domain
               /\ \A a \in {residualRpn(hazards[i])}, b \in {residualRpn(hazards'[i])} :
                    RLeq(a, b))
         => \A a \in {riskLoadPctOf(hazards)}, b \in {riskLoadPctOf(hazards')} :
              RLeq(a, b) ]_vars

\* C18 witness: the render of a session opened on a stored document with H1 of
\* roadShort at S = O = D = 10 without active control: its residual risk of
\* 1300 counts as 100 for its domain; with the other five hazards as the
\* template has them the risk load is 11.4016.
C18_Witness ==
  /\ Len(hazards) = 6
  /\ residualRpn(hazards[1]) = RInt(1300)
  /\ Tail(hazards) = Tail(TEMPLATES["roadShort"].hazards)
  /\ riskLoadPct = Rat(114016, 10000)

\* C19 (as claimed): the control health of the page is 100 when no control is
\* visible, and the controls with readiness 0.8 and no UCA and with readiness
\* 0.6 and two UCAs have the control health 60.
C19_ControlHealthScenario ==
  /\ filteredControls = << >> => controlPct = 100
  /\ controlHealthPct(<< Ct("A", "A", 80, 0), Ct("B", "B", 60, 2) >>) = 60

RECURSIVE AdjustedSum(_)
\* The sum over the controls of clamp(readiness - 0.06 * ucaCount, 0, 1), in
\* hundredths.
AdjustedSum(cs) ==
  IF cs = << >> THEN 0
  ELSE Min2(100, Max2(0, Head(cs).readiness - 6 * Head(cs).ucaCount))
       + AdjustedSum(Tail(cs))

\* C19 (amended): the control health is 100 times the mean over the visible
\* controls of clamp(readiness - 0.06 * ucaCount, 0, 1), rounded to the
\* nearest integer, and 100 when there is none; the controls of the scenario
\* have the control health 64.
C19_ControlHealth ==
  /\ controlPct =
       IF filteredControls = << >> THEN 100
       ELSE (2 * AdjustedSum(filteredControls) + Len(filteredControls))
              \div (2 * Len(filteredControls))
  /\ controlHealthPct(<< Ct("A", "A", 80, 0), Ct("B", "B", 60, 2) >>) = 64
  /\ controlHealthPct(<< >>) = 100

\* C19 witness: the Environmental Lead sees C1 alone, at readiness 1 with five
\* UCAs: control health 70.
C19_Witness ==
  /\ role = "Environmental Lead"
  /\ Len(filteredControls) = 1
  /\ filteredControls[1].readiness = 100
  /\ filteredControls[1].ucaCount = 5
  /\ controlPct = 70

\* Values a pillar is compared at.
PillarSamples == {0, 25, 50, 75, 100}

\* C20: the holistic value is clamp(0.4 readinessPct + 0.3 controlPct + 0.3 r),
\* r being the inverted risk load 100 - riskLoadPct; it is 100 when the three
\* pillars are 100, 0 when they are 0, and raising a pillar never lowers it.
C20_HolisticBlend ==
  \A rl \in {riskLoadPct}, cp \in {controlPct}, rp \in {readinessPct} :
    \A h \in {holisticPct} :
      /\ \A r \in {RSub(RInt(100), rl)} :
           h = RClamp(RAdd(Rat(4 * rp + 3 * cp, 10), Rat(3 * r.n, 10 * r.d)), 0, 100)
      /\ holisticPctOf(100, 100, RInt(0)) = RInt(100)
      /\ holisticPctOf(0, 0, RInt(100)) = RInt(0)
      /\ \A q \in PillarSamples :
           /\ q >= rp => \A g \in {holisticPctOf(q, cp, rl)} : RLeq(h, g)
           /\ q >= cp => \A g \in {holisticPctOf(rp, q, rl)} : RLeq(h, g)
           /\ (q * rl.d <= rl.n) => \A g \in {holisticPctOf(rp, cp, RInt(q))} : RLeq(h, g)

\* C20 witness: the default page with the readiness of control C1 put to 0:
\* readiness 75, control health 57, risk load 1.7344, holistic value 76.57968.
C20_Witness ==
  /\ hazards = TEMPLATES["roadShort"].hazards
  /\ criteriaValues = << >>
  /\ role = "Race Director"
  /\ controls = SetById(INITIAL_CONTROLS, "C1", "readiness", 0)
  /\ readinessPct = 75
  /\ controlPct = 57
  /\ holisticPct = Rat(7657968, 100000)

\* The fields of the hazard are in the ranges of its sliders.
HazardInRange(h) ==
  /\ h.S \in 1..10 /\ h.O \in 1..10 /\ h.D \in 1..10
  /\ h.controlsActive \in 0..100
  /\ h.weight > 0

\* C21: the residual risk of every hazard of the page whose fields are in
\* range is S * O * D * (1 - controlsActive) * weight: 0 when all controls are
\* active, S * O * D * weight when none is, and 33.28 for S 8, O 4, D 4,
\* controlsActive 0.8, weight 1.3.
C21_ResidualRisk ==
  /\ \A i \in 1..Len(hazards) :
       HazardInRange(hazards[i]) =>
         \A h \in {hazards[i]} : \A r \in {residualRpn(h)} :
           /\ \A inactive \in {RSub(RInt(1), Rat(h.controlsActive, 100))} :
                r = RMul(RMul(RInt(h.S * h.O * h.D), inactive), Rat(h.weight, 10))
           /\ h.controlsActive = 100 => r = RInt(0)
           /\ h.controlsActive = 0 => r = Rat(h.S * h.O * h.D * h.weight, 10)
  /\ residualRpn(Hz("H", "Sports", 8, 4, 4, 80, 13, "SEG-ALL")) = Rat(3328, 100)

\* C21 witness: H1 of roadShort (O 4, D 4, weight 1.3) was put to S = 10 with
\* no control active: its residual risk is 10 * 4 * 4 * 1.3 = 208.
C21_Witness ==
  /\ phase = "idle"
  /\ Len(hazards) = 6
  /\ hazards[1].S = 10 /\ hazards[1].O = 4 /\ hazards[1].D = 4
  /\ hazards[1].controlsActive = 0
  /\ residualRpn(hazards[1]) = RInt(208)

\* Values the S, O and D of a hazard are raised to, and shares of active
\* controls, when the residual risk is compared.
SODSamples == {1, 5, 10}
ActiveSamples == {0, 50, 100}

\* The holistic value of the page showing the given records under the role.
holisticOfRecords(cv, cs, r, hs) ==
  holisticPctOf(pct(avg(readinessFromCriteria(READINESS_CRITERIA, cv))),
                controlHealthPct(filteredControlsOf(cs, r)),
                riskLoadPctOf(hs))

\* C22: the residual risk of every hazard does not fall when its S, O or D is
\* raised and does not rise when its share of active controls is raised;
\* a logged incident lowers no hazard's residual risk and does not raise the
\* holistic value.
C22_ResidualMonotone ==
  /\ [](\A i \in 1..Len(hazards) : \A h \in {hazards[i]} : \A r \in {residualRpn(h)} :
          /\ \A k \in {"S", "O", "D"}, v \in SODSamples :
               v >= h[k] => \A q \in {residualRpn([h EXCEPT ![k] = v])} : RLeq(r, q)
          /\ \A v \in ActiveSamples :
               v >= h.controlsActive =>
                 \A q \in {residualRpn([h EXCEPT !.controlsActive = v])} : RLeq(q, r))
  /\ [][ incidents' # incidents =>
           /\ Len(hazards') = Len(hazards)
           /\ \A i \in 1..Len(hazards) :
                \A a \in {residualRpn(hazards[i])}, b \in {residualRpn(hazards'[i])} :
                  RLeq(a, b)
           /\ \A a \in {holisticOfRecords(criteriaValues, controls, role, hazards)},
                 b \in {holisticOfRecords(criteriaValues', controls', role', hazards')} :
                RLeq(b, a) ]_vars

\* C22 witness: an incident was logged on H1 with O = 9 and no control
\* active: O is 10 and the residual risk went from 374.4 to 416.
C22_Witness ==
  /\ Len(incidents) = 1
  /\ incidents[1].hazardId = "H1"
  /\ templateKey = "roadShort"
  /\ hazards[1].O = 10 /\ hazards[1].controlsActive = 0
  /\ residualRpn(hazards[1]) = RInt(416)

\* C23: whatever the role, the domain filter and the segment filter of the
\* page are, its risk load is the one of all its hazards, those the view hides
\* included: the risk load of the hazards the Race Director sees with no
\* filter; and a step that changes the role or a filter and no hazard leaves
\* the risk load of the records as it was.
C23_RiskOverAllHazards ==
  /\ [](\A shown \in {riskLoadPct},
           full \in {riskLoadPctOf(filteredHazardsOf(hazards, "Race Director", Null, Null))} :
          shown = full)
  /\ [][ (/\ << role, selectedSegment, selectedDomain >>'
               # << role, selectedSegment, selectedDomain >>
          /\ phase = "idle")
         => hazards' = hazards ]_vars

\* C23 witness: the PR / Media Lead, who sees no hazard of roadShort, has the
\* risk load of the six hazards on the page: 1.7344.
C23_Witness ==
  /\ phase = "idle"
  /\ role = "PR / Media Lead"
  /\ filteredHazards = << >>
  /\ hazards = TEMPLATES["roadShort"].hazards
  /\ riskLoadPct = Rat(17344, 10000)

\* The scores, in hundredths, of the criteria of the i-th domain, a criterion
\* without a score counting 75.
DomainScores(cv, i) ==
  [j \in 1..Len(READINESS_CRITERIA[DOMAINS[i]]) |->
     LET p == <<DOMAINS[i], READINESS_CRITERIA[DOMAINS[i]][j]>>
     IN  IF p \in DOMAIN cv THEN cv[p] ELSE 75]

RECURSIVE SumInts(_)
\* The sum of a sequence of integers.
SumInts(q) == IF q = << >> THEN 0 ELSE Head(q) + SumInts(Tail(q))

\* The mean of the scores of the i-th domain, 0.75 for a domain without
\* criteria.
DomainReadiness(cv, i) ==
  LET q == DomainScores(cv, i)
  IN  IF Len(q) = 0 THEN Rat(75, 100) ELSE Rat(SumInts(q), 100 * Len(q))

\* 100 times the mean of the ten domain readiness values.
ReadinessMeanPct(cv) ==
  LET dr == [i \in 1..Len(DOMAINS) |-> DomainReadiness(cv, i)]
  IN  RDivInt(RMul(SumOver(dr, 1..Len(DOMAINS)), RInt(100)), Len(DOMAINS))

\* C24 (as claimed): readinessPct is 100 times the mean of the domain
\* readiness values, a criterion without a score counting 0.75.
C24_ReadinessExact ==
  \A m \in {ReadinessMeanPct(criteriaValues)} : RInt(readinessPct) = m

\* C24 (amended): a criterion without a score counts 0.75; the readiness of a
\* domain is the mean of the scores of its criteria; readinessPct is 100 times
\* the mean of the ten domain values rounded to the nearest integer, 75 when no
\* score was entered.
C24_Readiness ==
  /\ \A i \in 1..Len(DOMAINS) : \A d \in {DomainReadiness(criteriaValues, i)} :
       /\ readiness[i] = d
       /\ (\A p \in DOMAIN criteriaValues : p[1] # DOMAINS[i]) => d = Rat(75, 100)
  /\ \A m \in {ReadinessMeanPct(criteriaValues)} : readinessPct = RRound(m)
  /\ criteriaValues = << >> => readinessPct = 75

\* C24 witness: the AED criterion of Health / Sanitary was scored 0 and no
\* other: the domain has the readiness 0.5, the mean of the ten domains is
\* 72.5 per cent and readinessPct is 73.
C24_Witness ==
  /\ phase = "idle"
  /\ DOMAIN criteriaValues = {<<"Health / Sanitary", "aed">>}
  /\ criteriaValues[<<"Health / Sanitary", "aed">>] = 0
  /\ readiness[3] = Rat(1, 2)
  /\ ReadinessMeanPct(criteriaValues) = Rat(725, 10)
  /\ readinessPct = 73

\* Holistic values the status is asked for, in increasing order: the ends,
\* the two floors and their neighbours.
StatusSamples ==
  << RInt(0), RInt(25), Rat(99, 2), RInt(50), Rat(101, 2), RInt(60), Rat(149, 2),
     RInt(75), Rat(151, 2), RInt(80), RInt(100) >>

\* The statuses from worst to best.
StatusRank(k) == CASE k = "notHealthy" -> 0 [] k = "watch" -> 1 [] k = "healthy" -> 2

\* The status claimed for the value v.
BandOf(v) ==
  IF RLess(v, RInt(50)) THEN "notHealthy"
  ELSE IF RLess(v, RInt(75)) THEN "watch" ELSE "healthy"

\* C25: with no critical constraint failing, the status shown for the
\* holistic value v of the page, and for every value of [0, 100] asked, is
\* NotHealthy iff v < 50, Watch iff 50 <= v < 75 and Healthy iff v >= 75, one
\* status exactly, and of two values the higher never has the worse status.
C25_StatusBands ==
  /\ ~anyCriticalFail =>
       \A rl \in {riskLoadPct}, cp \in {controlPct}, rp \in {readinessPct} :
         \A v \in {holisticPctOf(rp, cp, rl)} :
           \A k \in {gaugeStatusText(v, anyCriticalFail)} :
             /\ k \in {"notHealthy", "watch", "healthy"}
             /\ k = "notHealthy" <=> RLess(v, RInt(50))
             /\ k = "watch" <=> (RLeq(RInt(50), v) /\ RLess(v, RInt(75)))
             /\ k = "healthy" <=> RLeq(RInt(75), v)
  /\ \A i \in 1..Len(StatusSamples) :
       \A k \in {gaugeStatusText(StatusSamples[i], FALSE)} :
         /\ k = BandOf(StatusSamples[i])
         /\ i > 1 => StatusRank(gaugeStatusText(StatusSamples[i - 1], FALSE)) <= StatusRank(k)

\* C25 witness: the page opened on the document whose controls have no
\* readiness, no critical constraint failing: the holistic value is 59.47968
\* and the status is Watch.
C25_Witness ==
  /\ phase = "idle"
  /\ ~anyCriticalFail
  /\ \E rl \in {riskLoadPct}, cp \in {controlPct}, rp \in {readinessPct} :
       \E v \in {holisticPctOf(rp, cp, rl)} :
         /\ v = Rat(5947968, 100000)
         /\ gaugeStatusText(v, anyCriticalFail) = "watch"

\* The constraints of the page that are critical and fail.
FailingCritical == {c \in Range(constraints) : c.critical /\ c.status = "fail"}

\* C26: the status shown is ConstraintFail exactly when some constraint of
\* the page is critical and fails, and otherwise the threshold status of the
\* holistic value, whatever warns or fails without being critical; the step
\* that takes the last failing critical constraint back to pass or warn
\* leaves the holistic value as it was and shows its threshold status.
C26_GateExact ==
  /\ [](\A rl \in {riskLoadPct}, cp \in {controlPct}, rp \in {readinessPct} :
          \A v \in {holisticPctOf(rp, cp, rl)} :
            \A k \in {gaugeStatusText(v, anyCriticalFail)} :
              /\ k = "constraintFail" <=> FailingCritical # {}
              /\ FailingCritical = {} => k = BandOf(v))
  /\ [][ (FailingCritical # {} /\ FailingCritical' = {} /\ hazards' = hazards) =>
           \A v \in {holisticOfRecords(criteriaValues, controls, role, hazards)},
              w \in {holisticOfRecords(criteriaValues', controls', role', hazards')} :
             /\ v = w
             /\ gaugeStatusText(w, anyCriticalFail') = BandOf(v) ]_vars

\* C26 witness: in a session opened on nothing, constraint S1 was put to fail
\* and then to warn, nothing else was done: the status is Healthy again, that
\* of the holistic value 79.87968.
C26_Witness ==
  /\ phase = "idle"
  /\ opsLeft = 0
  /\ criteriaValues = << >>
  /\ controls = INITIAL_CONTROLS
  /\ constraints[1].critical /\ constraints[1].status = "warn"
  /\ \E rl \in {riskLoadPct}, cp \in {controlPct}, rp \in {readinessPct} :
       \E v \in {holisticPctOf(rp, cp, rl)} :
         /\ v = Rat(7987968, 100000)
         /\ gaugeStatusText(v, anyCriticalFail) = "healthy"

\* The keys of a document that the template effect sets.
ResetKeys == {"hazards", "constraints", "selectedSegment", "selectedDomain"}

\* No operation was made since the session was opened on a document that a
\* session of this page persisted.
StartedOnSessionDoc ==
  /\ opsLeft = MaxStartOps
  /\ loadLS # << >>
  /\ IsSessionDoc(loadLS[1])

\* C27 (as claimed): a session opened on a saved document has, once its
\* start-up effects have run, the hazards, the constraints and the filters of
\* that document (seen where the storage refuses writes, the stored text
\* staying the one the session was opened on), and no start-up effect changes
\* these keys of the stored document.
C27_EditsSurviveRestart ==
  /\ []((StartedOnSessionDoc /\ phase = "idle" /\ ~storageWorks) =>
          \A k \in ResetKeys : Doc[k] = loadLS[1][k])
  /\ [][ (StartedOnSessionDoc /\ RunEffects) =>
           \A k \in ResetKeys : loadLSOf(stored')[1][k] = loadLS[1][k] ]_vars

\* C28: a step that logs an incident leaves every hazard but the targeted one
\* as it was, changes at most the O of the targeted hazard (its S, D,
\* controlsActive, weight, domain and segmentId stay), and leaves the
\* controls, the constraints, the criterion scores, the role and both filters
\* unchanged.
C28_LogIncidentFrame ==
  [][ (incidents' # incidents) =>
        /\ Len(hazards') = Len(hazards)
        /\ \A i \in 1..Len(hazards) :
             IF hazards[i].id = incidentHazardId
               THEN hazards'[i] = [hazards[i] EXCEPT !.O = hazards'[i].O]
               ELSE hazards'[i] = hazards[i]
        /\ controls' = controls
        /\ constraints' = constraints
        /\ criteriaValues' = criteriaValues
        /\ role' = role
        /\ selectedSegment' = selectedSegment
        /\ selectedDomain' = selectedDomain ]_vars

\* C28 witness: an incident was logged against H1 of the short road race, its
\* O went from 4 to 5 and the rest of the hazard and H2 are the template's.
C28_Witness ==
  /\ Len(incidents) = 1
  /\ incidents[1].hazardId = "H1"
  /\ templateKey = "roadShort"
  /\ hazards[1].id = "H1"
  /\ hazards[1] = [TEMPLATES["roadShort"].hazards[1] EXCEPT !.O = 5]
  /\ hazards[2] = TEMPLATES["roadShort"].hazards[2]

\* C29 (as claimed): the domain the hazard list is filtered by is null or one
\* of the domains the active role sees.
C29_DomainFilterVisible ==
  selectedDomain = Null \/ selectedDomain \in Range(visibleDomains)

\* C30: the role enters the holistic value through the controls it sees and
\* through nothing else. The value the page shows is the one that any role
\* with the same visible control set gets from the same records; a change of
\* role that leaves the visible control set as it was leaves the value as it
\* was; and a role whose allow-list is empty has a control health of 100
\* whatever the readiness and the ucaCount of the stored controls are.
C30_RoleThroughControls ==
  /\ []((role \in DOMAIN ROLE_CONTROLS /\ ROLE_CONTROLS[role] = << >>) => controlPct = 100)
  /\ [](\A rl \in {riskLoadPct}, cp \in {controlPct}, rp \in {readinessPct} :
          \A shown \in {holisticPctOf(rp, cp, rl)} :
            \A r \in Range(ROLES) :
              filteredControlsOf(controls, r) = filteredControls =>
                \A other \in {holisticOfRecords(criteriaValues, controls, r, hazards)} :
                  other = shown)
  /\ [][ (role' # role /\ filteredControlsOf(controls', role') = filteredControls) =>
           \A rl \in {riskLoadPct}, cp \in {controlPct}, rp \in {readinessPct} :
             \A before \in {holisticPctOf(rp, cp, rl)},
                after \in {holisticOfRecords(criteriaValues', controls', role', hazards')} :
               after = before ]_vars

\* C30 witness: the Finance Lead, whose allow-list is empty, looks at a page
\* whose first control was edited: the control health is 100 and the holistic
\* value is the one of the PR / Media Lead, 89.47968.
C30_Witness ==
  /\ phase = "idle"
  /\ role = "Finance Lead"
  /\ controls # INITIAL_CONTROLS
  /\ hazards = TEMPLATES["roadShort"].hazards
  /\ criteriaValues = << >>
  /\ controlPct = 100
  /\ \E rl \in {riskLoadPct}, cp \in {controlPct}, rp \in {readinessPct} :
       \E shown \in {holisticPctOf(rp, cp, rl)},
          other \in {holisticOfRecords(criteriaValues, controls, "PR / Media Lead", hazards)} :
         /\ shown = Rat(8947968, 100000)
         /\ other = shown

====
